---------------------------- MODULE Spec2Model ----------------------------
(***************************************************************************)
(* Bird Card Game (src/birdgame.py): the deck, the players' hands and      *)
(* completed sets, the BirdGame operations and the turn loop of play_game. *)
(*                                                                         *)
(* Players are numbered 1..n in the order of player_names; the field       *)
(* current_player_idx keeps the source's 0-based value.  A hand and a deck *)
(* are Python lists, modelled as sequences; deck.draw() pops the last      *)
(* element.                                                                *)
(***************************************************************************)
EXTENDS Integers, Sequences, FiniteSets, TLC

VARIABLES
    names,               \* BirdGame.__init__'s player_names argument
    shuffled,            \* the deck as left by deck.shuffle(), before the deal
    deck,                \* game.deck.cards
    hand,                \* hand[p] = game.players[p-1].hand
    sets,                \* sets[p] = game.players[p-1].sets
    current_player_idx,  \* game.current_player_idx
    game_over,           \* game.game_over
    last,                \* the last call made and what it returned
    pc,                  \* "api": calls made by any client; else the turn loop's position
    target_player,       \* play_game's local target_player (0: none chosen)
    turns,               \* loop iterations begun
    calls,               \* calls made by the client
    demo                 \* the deck, hands and sets of simulate_game's game (demo.py)

vars == <<names, shuffled, deck, hand, sets, current_player_idx, game_over,
          last, pc, target_player, turns, calls, demo>>

game == <<deck, hand, sets, current_player_idx, game_over>>

-----------------------------------------------------------------------------
(* Bounds of the model *)

\* Number of bird types in play: a prefix of Deck.BIRD_TYPES (the source has 10).
\* At least 5 are needed for the deck to cover the deal of a 4-player game.
NumBirdTypes == 5
\* State-changing calls (ask_for_cards, draw_card, check_for_sets, next_turn,
\* add_card) a client makes on one game; the two queries check_game_over and
\* get_winner are not counted.
MaxCalls == 2
\* Turns the loop runs.
MaxTurns == 3
\* Bird types among the cards of a lone player's hand.
MaxHandTypes == 2

-----------------------------------------------------------------------------
(* Cards and the deck *)

AllBirdTypes == <<"Robin", "Eagle", "Sparrow", "Owl", "Hawk",
                  "Cardinal", "Bluejay", "Crow", "Parrot", "Finch">>

BIRD_TYPES == SubSeq(AllBirdTypes, 1, NumBirdTypes)

SUITS == <<"Spring", "Summer", "Fall", "Winter">>

Card(bird_type, suit) == [bird_type |-> bird_type, suit |-> suit]

\* Python's None where a Card is expected.
NoCard == [bird_type |-> "", suit |-> ""]

\* Deck._create_deck: for bird in BIRD_TYPES: for suit in SUITS: append
_create_deck ==
    [i \in 1..(Len(BIRD_TYPES) * Len(SUITS)) |->
        Card(BIRD_TYPES[((i - 1) \div Len(SUITS)) + 1],
             SUITS[((i - 1) % Len(SUITS)) + 1])]

is_empty(cards) == Len(cards) = 0

cards_remaining(cards) == Len(cards)

\* Variant: pops the first card.
draw_first(cards) ==
    IF Len(cards) > 0
    THEN [card |-> cards[1], cards |-> Tail(cards)]
    ELSE [card |-> NoCard, cards |-> cards]

\* Deck.draw: pop the last card, or None.
draw(cards) ==
    IF Len(cards) > 0
    THEN [card |-> cards[Len(cards)], cards |-> SubSeq(cards, 1, Len(cards) - 1)]
    ELSE [card |-> NoCard, cards |-> cards]

\* The cards i, i+k, i+2k, ... of s.
Pile(s, k, i) == [m \in 1..((Len(s) - i) \div k + 1) |-> s[i + (m - 1) * k]]

RECURSIVE Piles(_, _, _)
Piles(s, k, i) == IF i > k \/ i > Len(s) THEN <<>> ELSE Pile(s, k, i) \o Piles(s, k, i + 1)

\* Deck.shuffle: random.shuffle leaves any permutation of the cards.  The
\* permutations drawn here are the pile shuffles with one pile (the deck as
\* created), one pile per bird type, and one more than that.
PileCounts == {1, Len(BIRD_TYPES), Len(BIRD_TYPES) + 1}

shuffle(cards) == { Piles(cards, k, 1) : k \in PileCounts }

-----------------------------------------------------------------------------
(* Player *)

\* Player.add_card
add_card(h, card) == Append(h, card)

\* Variant: looks only at whether the hand holds any card at all.
has_bird_any(h, bird_type) == h # <<>>

\* Player.has_bird
has_bird(h, bird_type) == \E i \in 1..Len(h) : h[i].bird_type = bird_type

\* Player.get_cards_of_type
get_cards_of_type(h, bird_type) == SelectSeq(h, LAMBDA card : card.bird_type = bird_type)

\* list.remove(card): drops the first element equal to card.
RECURSIVE list_remove(_, _)
list_remove(h, card) ==
    IF h = <<>> THEN <<>>
    ELSE IF Head(h) = card THEN Tail(h)
    ELSE <<Head(h)>> \o list_remove(Tail(h), card)

\* Variant: the removal loop stops after the first card.
remove_all_first(h, cards) ==
    IF cards = <<>> THEN h ELSE list_remove(h, Head(cards))

\* for card in cards: self.hand.remove(card)
RECURSIVE remove_all(_, _)
remove_all(h, cards) ==
    IF cards = <<>> THEN h ELSE remove_all(list_remove(h, Head(cards)), Tail(cards))

\* Variant: returns the cards without taking them out of the hand.
remove_cards_of_type_keep(h, bird_type) ==
    [hand |-> h, cards |-> get_cards_of_type(h, bird_type)]

\* Player.remove_cards_of_type: the hand left and the cards returned.
remove_cards_of_type(h, bird_type) ==
    LET cards == get_cards_of_type(h, bird_type)
    IN  [hand |-> remove_all(h, cards), cards |-> cards]

\* The keys of bird_counts in insertion order: bird types by first occurrence.
RECURSIVE bird_order(_, _)
bird_order(h, seen) ==
    IF h = <<>> THEN seen
    ELSE bird_order(Tail(h),
                    IF \E i \in 1..Len(seen) : seen[i] = Head(h).bird_type
                    THEN seen ELSE Append(seen, Head(h).bird_type))

\* bird_counts[bird_type] as built by the first loop of check_for_sets.
bird_counts(h, bird_type) == Cardinality({i \in 1..Len(h) : h[i].bird_type = bird_type})

\* Variant: a bird type counts as complete with 3 cards.
RECURSIVE sets_loop_three(_, _, _, _, _)
sets_loop_three(keys, counts_of, h, s, new_sets) ==
    IF keys = <<>> THEN [hand |-> h, sets |-> s, new_sets |-> new_sets]
    ELSE LET bird_type == Head(keys)
         IN  IF bird_counts(counts_of, bird_type) >= 3
                /\ ~(\E i \in 1..Len(s) : s[i] = bird_type)
             THEN sets_loop_three(Tail(keys), counts_of,
                                  remove_cards_of_type(h, bird_type).hand,
                                  Append(s, bird_type), Append(new_sets, bird_type))
             ELSE sets_loop_three(Tail(keys), counts_of, h, s, new_sets)

\* The second loop of check_for_sets over the remaining keys.
RECURSIVE sets_loop(_, _, _, _, _)
sets_loop(keys, counts_of, h, s, new_sets) ==
    IF keys = <<>> THEN [hand |-> h, sets |-> s, new_sets |-> new_sets]
    ELSE LET bird_type == Head(keys)
         IN  IF bird_counts(counts_of, bird_type) = 4
                /\ ~(\E i \in 1..Len(s) : s[i] = bird_type)
             THEN sets_loop(Tail(keys), counts_of,
                            remove_cards_of_type(h, bird_type).hand,
                            Append(s, bird_type), Append(new_sets, bird_type))
             ELSE sets_loop(Tail(keys), counts_of, h, s, new_sets)

\* Variant: the second loop returns at the first set it completes.
player_check_for_sets_first(h, s) ==
    LET keys == bird_order(h, <<>>)
        Completes(i) == /\ bird_counts(h, keys[i]) = 4
                        /\ ~(\E j \in 1..Len(s) : s[j] = keys[i])
        stop == IF \E i \in 1..Len(keys) : Completes(i)
                THEN CHOOSE i \in 1..Len(keys) :
                         Completes(i) /\ \A j \in 1..(i - 1) : ~Completes(j)
                ELSE Len(keys)
    IN  sets_loop(SubSeq(keys, 1, stop), h, h, s, <<>>)

\* Variant: reports the complete bird types and leaves the hand and the sets alone.
player_check_for_sets_query(h, s) ==
    [hand |-> h, sets |-> s,
     new_sets |-> sets_loop(bird_order(h, <<>>), h, h, s, <<>>).new_sets]

\* Player.check_for_sets: the hand and sets left and the list returned.
player_check_for_sets(h, s) == sets_loop(bird_order(h, <<>>), h, h, s, <<>>)

\* Player.get_available_birds
get_available_birds(h) == {h[i].bird_type : i \in 1..Len(h)}

\* Player.score
score(s) == Len(s)

-----------------------------------------------------------------------------
(* BirdGame.__init__ *)

Players == 1..Len(names)

\* Variant: the two-player case is forgotten.
cards_per_player_five(n) == 5

\* cards_per_player = 7 if len(self.players) == 2 else 5
cards_per_player(n) == IF n = 2 THEN 7 ELSE 5

\* The dealing loops: step i gives player (i mod n) + 1 a card if one is left.
RECURSIVE deal(_, _, _, _)
deal(cards, hands, n, i) ==
    IF i >= cards_per_player(n) * n THEN [cards |-> cards, hands |-> hands]
    ELSE LET d == draw(cards)
             p == (i % n) + 1
         IN  IF d.card # NoCard
             THEN deal(d.cards, [hands EXCEPT ![p] = add_card(hands[p], d.card)], n, i + 1)
             ELSE deal(d.cards, hands, n, i + 1)

\* Variant: the hands are dealt and not checked for initial sets.
BirdGame_unchecked(player_names, cards) ==
    LET n == Len(player_names)
        dealt == deal(cards, [p \in 1..n |-> <<>>], n, 0)
    IN  [deck |-> dealt.cards,
         hand |-> dealt.hands,
         sets |-> [p \in 1..n |-> <<>>],
         current_player_idx |-> 0,
         game_over |-> FALSE,
         raised |-> ""]

\* The game built from player_names once the deck is shuffled to `cards`.
BirdGame(player_names, cards) ==
    LET n == Len(player_names)
        dealt == deal(cards, [p \in 1..n |-> <<>>], n, 0)
        checked == [p \in 1..n |-> player_check_for_sets(dealt.hands[p], <<>>)]
    IN  [deck |-> dealt.cards,
         hand |-> [p \in 1..n |-> checked[p].hand],
         sets |-> [p \in 1..n |-> checked[p].sets],
         current_player_idx |-> 0,
         game_over |-> FALSE,
         raised |-> ""]      \* __init__ has no raise statement

\* What a call returned; the fields a call does not use keep these values.
NoCall == [op |-> "", count |-> 0, card |-> NoCard, new_sets |-> <<>>,
           flag |-> FALSE, winner |-> 0, raised |-> ""]

PlayerNames == <<"Alice", "Bob", "Carol", "Dave">>

\* The player_names play_game passes: 2 to 4 non-empty names.
ValidNames == { SubSeq(PlayerNames, 1, n) : n \in 2..4 }

\* No game of simulate_game is run.
NoDemo == [deck |-> <<>>, hand |-> <<>>, sets |-> <<>>]

\* The game is built; with `beside`, simulate_game's game is built from the
\* same player_names and the same shuffled deck.
Built(player_names, start, beside) ==
    \E cards \in shuffle(_create_deck) :
        LET g == BirdGame(player_names, cards)
        IN  /\ names = player_names
            /\ shuffled = cards
            /\ deck = g.deck
            /\ hand = g.hand
            /\ sets = g.sets
            /\ current_player_idx = g.current_player_idx
            /\ game_over = g.game_over
            /\ last = [NoCall EXCEPT !.op = "__init__", !.raised = g.raised]
            /\ pc = start
            /\ target_player = 0
            /\ turns = 0
            /\ calls = 0
            /\ demo = IF beside
                      THEN [deck |-> g.deck, hand |-> g.hand, sets |-> g.sets]
                      ELSE NoDemo

Constructed(player_names, start) == Built(player_names, start, FALSE)

Init == \E player_names \in ValidNames : Constructed(player_names, "api")

-----------------------------------------------------------------------------
(* BirdGame operations, on the game's fields and the value returned *)

get_current_player == current_player_idx + 1

\* Variant: the index is advanced without wrapping around.
next_turn_unwrapped ==
    /\ current_player_idx' = current_player_idx + 1
    /\ last' = [NoCall EXCEPT !.op = "next_turn"]
    /\ UNCHANGED <<deck, hand, sets, game_over>>

\* BirdGame.next_turn
next_turn ==
    IF Len(names) = 0
    THEN /\ last' = [NoCall EXCEPT !.op = "next_turn", !.raised = "ZeroDivisionError"]
         /\ UNCHANGED game
    ELSE /\ current_player_idx' = (current_player_idx + 1) % Len(names)
         /\ last' = [NoCall EXCEPT !.op = "next_turn"]
         /\ UNCHANGED <<deck, hand, sets, game_over>>

\* Variant: the cards go from the asker to the target.
ask_outcome_swapped(hands, asker, target, bird_type) ==
    IF ~has_bird(hands[asker], bird_type)
    THEN [hand |-> hands, count |-> 0]
    ELSE LET r == remove_cards_of_type(hands[asker], bird_type)
             removed == [hands EXCEPT ![asker] = r.hand]
         IN  [hand |-> [removed EXCEPT ![target] = removed[target] \o r.cards],
              count |-> Len(r.cards)]

\* The hands after ask_for_cards and the number it returns.
ask_outcome(hands, asker, target, bird_type) ==
    IF ~has_bird(hands[asker], bird_type)
    THEN [hand |-> hands, count |-> 0]
    ELSE LET r == remove_cards_of_type(hands[target], bird_type)
             removed == [hands EXCEPT ![target] = r.hand]
         IN  IF r.cards # <<>>
             THEN [hand |-> [removed EXCEPT ![asker] = removed[asker] \o r.cards],
                   count |-> Len(r.cards)]
             ELSE [hand |-> removed, count |-> 0]

\* BirdGame.ask_for_cards
ask_for_cards(asker, target, bird_type) ==
    LET r == ask_outcome(hand, asker, target, bird_type)
    IN  /\ hand' = r.hand
        /\ last' = [NoCall EXCEPT !.op = "ask_for_cards", !.count = r.count]
        /\ UNCHANGED <<deck, sets, current_player_idx, game_over>>

\* Variant: the card is added to the hand without the test `if card`.
draw_card_unchecked(player) ==
    LET d == draw(deck)
    IN  /\ deck' = d.cards
        /\ hand' = [hand EXCEPT ![player] = add_card(hand[player], d.card)]
        /\ last' = [NoCall EXCEPT !.op = "draw_card", !.card = d.card]
        /\ UNCHANGED <<sets, current_player_idx, game_over>>

\* BirdGame.draw_card
draw_card(player) ==
    LET d == draw(deck)
    IN  /\ deck' = d.cards
        /\ hand' = IF d.card # NoCard
                   THEN [hand EXCEPT ![player] = add_card(hand[player], d.card)]
                   ELSE hand
        /\ last' = [NoCall EXCEPT !.op = "draw_card", !.card = d.card]
        /\ UNCHANGED <<sets, current_player_idx, game_over>>

\* Variant: the sets completed by this call replace the player's sets.
check_for_sets_replace(player) ==
    LET r == player_check_for_sets(hand[player], sets[player])
    IN  /\ hand' = [hand EXCEPT ![player] = r.hand]
        /\ sets' = [sets EXCEPT ![player] = r.new_sets]
        /\ last' = [NoCall EXCEPT !.op = "check_for_sets", !.new_sets = r.new_sets]
        /\ UNCHANGED <<deck, current_player_idx, game_over>>

\* player.check_for_sets() on a player of the game
check_for_sets(player) ==
    LET r == player_check_for_sets(hand[player], sets[player])
    IN  /\ hand' = [hand EXCEPT ![player] = r.hand]
        /\ sets' = [sets EXCEPT ![player] = r.sets]
        /\ last' = [NoCall EXCEPT !.op = "check_for_sets", !.new_sets = r.new_sets]
        /\ UNCHANGED <<deck, current_player_idx, game_over>>

\* Variant: requires every hand to be empty.
check_game_over_all ==
    is_empty(deck) /\ \A p \in Players : Len(hand[p]) = 0

\* What check_game_over returns.
check_game_over_result ==
    is_empty(deck) /\ \E p \in Players : Len(hand[p]) = 0

\* BirdGame.check_game_over
check_game_over ==
    /\ game_over' = IF check_game_over_result THEN TRUE ELSE game_over
    /\ last' = [NoCall EXCEPT !.op = "check_game_over", !.flag = check_game_over_result]
    /\ UNCHANGED <<deck, hand, sets, current_player_idx>>

\* max(player.score() for player in self.players)
max_score == CHOOSE m \in {score(sets[p]) : p \in Players} :
                 \A p \in Players : score(sets[p]) <= m

\* Variant: returns winners[0] also when several players share the maximum.
get_winner_first ==
    IF ~game_over THEN 0
    ELSE CHOOSE p \in Players :
             /\ score(sets[p]) = max_score
             /\ \A q \in Players : score(sets[q]) = max_score => p <= q

\* What get_winner returns: a player, or 0 for None.
get_winner_result ==
    IF ~game_over THEN 0
    ELSE LET winners == {p \in Players : score(sets[p]) = max_score}
         IN  IF Cardinality(winners) = 1 THEN CHOOSE p \in winners : TRUE ELSE 0

\* BirdGame.get_winner
get_winner ==
    /\ IF game_over /\ Len(names) = 0
       THEN last' = [NoCall EXCEPT !.op = "get_winner", !.raised = "ValueError"]
       ELSE last' = [NoCall EXCEPT !.op = "get_winner", !.winner = get_winner_result]
    /\ UNCHANGED game

-----------------------------------------------------------------------------
(* A client calling the game's operations in any order *)

Call(op, cost) ==
    /\ pc = "api"
    /\ calls + cost <= MaxCalls
    /\ op
    /\ calls' = calls + cost
    /\ UNCHANGED <<names, shuffled, pc, target_player, turns, demo>>

CallAsk == \E asker \in Players, target \in Players, b \in 1..Len(BIRD_TYPES) :
               Call(ask_for_cards(asker, target, BIRD_TYPES[b]), 1)

CallDraw == \E player \in Players : Call(draw_card(player), 1)

CallCheckForSets == \E player \in Players : Call(check_for_sets(player), 1)

CallNextTurn == Call(next_turn, 1)

CallCheckGameOver == Call(check_game_over, 0)

CallGetWinner == Call(get_winner, 0)

Next ==
    \/ CallAsk
    \/ CallDraw
    \/ CallCheckForSets
    \/ CallNextTurn
    \/ CallCheckGameOver
    \/ CallGetWinner

Spec == Init /\ [][Next]_vars

-----------------------------------------------------------------------------
(* The same client on a game built from any player_names: BirdGame.__init__ *)
(* takes whatever list it is given.                                         *)

AnyNames == ValidNames \cup { <<>>, <<"Alice">>, <<"Alice", "">>,
                              <<"Alice", "Bob", "Carol", "Dave", "Erin">> }

InitAny == \E player_names \in AnyNames : Constructed(player_names, "api")

SpecAny == InitAny /\ [][Next]_vars

-----------------------------------------------------------------------------
(* The same client, which may also call Player.add_card on a player *)

\* player.add_card(card) on a player of the game, with any card value
player_add_card(player, card) ==
    /\ hand' = [hand EXCEPT ![player] = add_card(hand[player], card)]
    /\ last' = [NoCall EXCEPT !.op = "add_card"]
    /\ UNCHANGED <<deck, sets, current_player_idx, game_over>>

CallAddCard == \E player \in Players, i \in 1..Len(_create_deck) :
                   Call(player_add_card(player, _create_deck[i]), 1)

NextDirect == Next \/ CallAddCard

SpecDirect == Init /\ [][NextDirect]_vars

-----------------------------------------------------------------------------
(* play_game: the turn loop *)

InitLoop == \E player_names \in ValidNames : Constructed(player_names, "while")

Step(from, op, to) ==
    /\ pc = from
    /\ op
    /\ pc' = to
    /\ UNCHANGED <<names, shuffled, calls, demo>>

\* while not game.check_game_over(): the loop ends
WhileExit ==
    /\ check_game_over_result
    /\ Step("while", check_game_over, "over")
    /\ UNCHANGED <<target_player, turns>>

\* while not game.check_game_over(): a turn begins
WhileEnter ==
    /\ ~check_game_over_result
    /\ turns < MaxTurns
    /\ Step("while", check_game_over, "turn")
    /\ turns' = turns + 1
    /\ UNCHANGED target_player

\* Variant: a player without cards draws one instead of passing.
SkipTurnDraws ==
    /\ hand[get_current_player] = <<>>
    /\ Step("turn", draw_card(get_current_player), "next_turn")
    /\ UNCHANGED <<target_player, turns>>

\* if not current_player.hand: game.next_turn(); continue
SkipTurn ==
    /\ hand[get_current_player] = <<>>
    /\ Step("turn", next_turn, "while")
    /\ UNCHANGED <<target_player, turns>>

\* Variant: the player may pick any bird type, held or not.
AskTurnAnyBird ==
    /\ hand[get_current_player] # <<>>
    /\ \E target \in Players \ {get_current_player},
          bird_type \in {BIRD_TYPES[b] : b \in 1..Len(BIRD_TYPES)} :
            /\ Step("turn", ask_for_cards(get_current_player, target, bird_type),
                    IF ask_outcome(hand, get_current_player, target, bird_type).count > 0
                    THEN "check_sets" ELSE "draw")
            /\ target_player' = target
    /\ UNCHANGED turns

\* The player picks another player and a bird type of the hand, and asks.
AskTurn ==
    /\ hand[get_current_player] # <<>>
    /\ \E target \in Players \ {get_current_player},
          bird_type \in get_available_birds(hand[get_current_player]) :
            /\ Step("turn", ask_for_cards(get_current_player, target, bird_type),
                    IF ask_outcome(hand, get_current_player, target, bird_type).count > 0
                    THEN "check_sets" ELSE "draw")
            /\ target_player' = target
    /\ UNCHANGED turns

\* Variant: the card is drawn for the player who was asked.
DrawTurnTarget ==
    /\ Step("draw", draw_card(target_player), "check_sets")
    /\ UNCHANGED <<target_player, turns>>

\* else: card = game.draw_card(current_player)
DrawTurn ==
    /\ Step("draw", draw_card(get_current_player), "check_sets")
    /\ UNCHANGED <<target_player, turns>>

\* Variant: the player asked is checked in place of the current player.
CheckSetsCurrentTarget ==
    /\ Step("check_sets", check_for_sets(target_player), "check_target")
    /\ UNCHANGED <<target_player, turns>>

\* new_sets = current_player.check_for_sets()
CheckSetsCurrent ==
    /\ Step("check_sets", check_for_sets(get_current_player), "check_target")
    /\ UNCHANGED <<target_player, turns>>

\* target_new_sets = target_player.check_for_sets()
CheckSetsTarget ==
    /\ Step("check_target", check_for_sets(target_player), "next_turn")
    /\ UNCHANGED <<target_player, turns>>

\* game.next_turn() at the end of the turn
AdvanceTurn ==
    /\ Step("next_turn", next_turn, "while")
    /\ target_player' = 0
    /\ UNCHANGED turns

\* winner = game.get_winner() after the loop
Winner ==
    /\ Step("over", get_winner, "end")
    /\ UNCHANGED <<target_player, turns>>

NextLoop ==
    \/ WhileExit
    \/ WhileEnter
    \/ SkipTurn
    \/ AskTurn
    \/ DrawTurn
    \/ CheckSetsCurrent
    \/ CheckSetsTarget
    \/ AdvanceTurn
    \/ Winner

SpecLoop == InitLoop /\ [][NextLoop]_vars

-----------------------------------------------------------------------------
(* play_game run to its end, for two players: the loop takes as many turns *)
(* as the game lasts, and the turn counter is not kept.                    *)

InitPlay == Constructed(SubSeq(PlayerNames, 1, 2), "while")

\* while not game.check_game_over(): a turn begins
WhileTurn ==
    /\ ~check_game_over_result
    /\ Step("while", check_game_over, "turn")
    /\ UNCHANGED <<target_player, turns>>

NextPlay ==
    \/ WhileExit
    \/ WhileTurn
    \/ SkipTurn
    \/ AskTurn
    \/ DrawTurn
    \/ CheckSetsCurrent
    \/ CheckSetsTarget
    \/ AdvanceTurn
    \/ Winner

\* The positions of play_game's single thread of control.
Positions == {"while", "turn", "draw", "check_sets", "check_target",
              "next_turn", "over", "end"}

\* The thread moves on from its position.  Every step of NextPlay is such a
\* move, and a step of NextPlay is possible at every position but "end": the
\* interpreter always executes the next statement, and the player's choice
\* of a target and a bird type is always answered.
Advance == pc # "end" /\ pc' \in Positions \ {pc}

SpecPlay == InitPlay /\ [][NextPlay]_vars /\ WF_pc(Advance)

-----------------------------------------------------------------------------
(* simulate_game (demo.py) beside play_game: the two loops are run on the  *)
(* same player_names, the same shuffled deck and the same choices of a     *)
(* target and a bird type, statement by statement.  simulate_game's loop   *)
(* has no statement for the target player's sets.  The loops are followed  *)
(* for MaxTurns turns, fewer than simulate_game's max_turns.               *)

InitBoth == \E player_names \in ValidNames : Built(player_names, "while", TRUE)

\* game.ask_for_cards(current_player, target, bird_type) in simulate_game
demo_ask(g, asker, target, bird_type) ==
    [g EXCEPT !.hand = ask_outcome(g.hand, asker, target, bird_type).hand]

\* game.draw_card(current_player) in simulate_game
demo_draw(g, player) ==
    LET d == draw(g.deck)
    IN  [g EXCEPT !.deck = d.cards,
                  !.hand = IF d.card # NoCard
                           THEN [g.hand EXCEPT ![player] = add_card(g.hand[player], d.card)]
                           ELSE g.hand]

\* current_player.check_for_sets() in simulate_game
demo_check(g, player) ==
    LET r == player_check_for_sets(g.hand[player], g.sets[player])
    IN  [g EXCEPT !.hand = [g.hand EXCEPT ![player] = r.hand],
                  !.sets = [g.sets EXCEPT ![player] = r.sets]]

\* A statement of play_game, and what simulate_game does at that place.
Both(from, op, demo_next, to) ==
    /\ pc = from
    /\ op
    /\ demo' = demo_next
    /\ pc' = to
    /\ UNCHANGED <<names, shuffled, calls>>

BothWhileExit ==
    /\ check_game_over_result
    /\ Both("while", check_game_over, demo, "over")
    /\ UNCHANGED <<target_player, turns>>

BothWhileEnter ==
    /\ ~check_game_over_result
    /\ turns < MaxTurns
    /\ Both("while", check_game_over, demo, "turn")
    /\ turns' = turns + 1
    /\ UNCHANGED target_player

BothSkipTurn ==
    /\ hand[get_current_player] = <<>>
    /\ Both("turn", next_turn, demo, "while")
    /\ UNCHANGED <<target_player, turns>>

BothAskTurn ==
    /\ hand[get_current_player] # <<>>
    /\ \E target \in Players \ {get_current_player},
          bird_type \in get_available_birds(hand[get_current_player]) :
            /\ Both("turn", ask_for_cards(get_current_player, target, bird_type),
                    demo_ask(demo, get_current_player, target, bird_type),
                    IF ask_outcome(hand, get_current_player, target, bird_type).count > 0
                    THEN "check_sets" ELSE "draw")
            /\ target_player' = target
    /\ UNCHANGED turns

BothDrawTurn ==
    /\ Both("draw", draw_card(get_current_player),
            demo_draw(demo, get_current_player), "check_sets")
    /\ UNCHANGED <<target_player, turns>>

BothCheckSetsCurrent ==
    /\ Both("check_sets", check_for_sets(get_current_player),
            demo_check(demo, get_current_player), "check_target")
    /\ UNCHANGED <<target_player, turns>>

\* target_player.check_for_sets(): in play_game only
PlayCheckSetsTarget ==
    /\ Both("check_target", check_for_sets(target_player), demo, "next_turn")
    /\ UNCHANGED <<target_player, turns>>

BothAdvanceTurn ==
    /\ Both("next_turn", next_turn, demo, "while")
    /\ target_player' = 0
    /\ UNCHANGED turns

NextBoth ==
    \/ BothWhileExit
    \/ BothWhileEnter
    \/ BothSkipTurn
    \/ BothAskTurn
    \/ BothDrawTurn
    \/ BothCheckSetsCurrent
    \/ PlayCheckSetsTarget
    \/ BothAdvanceTurn

SpecBoth == InitBoth /\ [][NextBoth]_vars

-----------------------------------------------------------------------------
(* A lone Player, not part of a game: any hand, any completed sets *)

\* The cards of the first MaxHandTypes bird types.
HandDeck == SubSeq(_create_deck, 1, Len(SUITS) * MaxHandTypes)

\* The orders the cards come in: by bird type, and by suit.
HandOrders == { Piles(HandDeck, k, 1) : k \in {1, Len(SUITS)} }

\* The cards of s at the positions M, in the order of s.
RECURSIVE Pick(_, _, _)
Pick(s, M, i) ==
    IF i > Len(s) THEN <<>>
    ELSE (IF i \in M THEN <<s[i]>> ELSE <<>>) \o Pick(s, M, i + 1)

\* Player(name) after any add_card and check_for_sets calls: the hand holds
\* some of the cards, and some of the bird types are in the sets already.
InitPlayer ==
    \E cards \in HandOrders, M \in SUBSET (1..Len(HandDeck)),
       S \in SUBSET {BIRD_TYPES[b] : b \in 1..MaxHandTypes} :
        /\ names = <<"Alice">>
        /\ shuffled = cards
        /\ deck = <<>>
        /\ hand = <<Pick(cards, M, 1)>>
        /\ sets = <<SelectSeq(SubSeq(BIRD_TYPES, 1, MaxHandTypes), LAMBDA b : b \in S)>>
        /\ current_player_idx = 0
        /\ game_over = FALSE
        /\ last = [NoCall EXCEPT !.op = "Player"]
        /\ pc = "player"
        /\ target_player = 0
        /\ turns = 0
        /\ calls = 0
        /\ demo = NoDemo

\* player.check_for_sets(); calls counts these calls
PlayerCheckForSets ==
    /\ pc = "player"
    /\ calls < MaxCalls
    /\ check_for_sets(1)
    /\ calls' = calls + 1
    /\ UNCHANGED <<names, shuffled, pc, target_player, turns, demo>>

\* player.remove_cards_of_type(bird_type)
PlayerRemoveCardsOfType ==
    /\ pc = "player"
    /\ \E bird_type \in get_available_birds(hand[1]) :
          LET r == remove_cards_of_type(hand[1], bird_type)
          IN  /\ hand' = [hand EXCEPT ![1] = r.hand]
              /\ last' = [NoCall EXCEPT !.op = "remove_cards_of_type",
                                        !.count = Len(r.cards)]
    /\ UNCHANGED <<names, shuffled, deck, sets, current_player_idx, game_over,
                   pc, target_player, turns, calls, demo>>

NextPlayer == PlayerCheckForSets \/ PlayerRemoveCardsOfType

SpecPlayer == InitPlayer /\ [][NextPlayer]_vars

-----------------------------------------------------------------------------
(* Vocabulary of the properties, stated on the hands themselves *)

BirdTypeSet == {BIRD_TYPES[b] : b \in 1..Len(BIRD_TYPES)}

Occurrences(s, x) == Cardinality({i \in 1..Len(s) : s[i] = x})

CountOfType(h, bird_type) == Cardinality({i \in 1..Len(h) : h[i].bird_type = bird_type})

\* The bird types of which the hand holds at least one card.
BirdsHeld(h) == {h[i].bird_type : i \in 1..Len(h)}

OfType(h, bird_type) == SelectSeq(h, LAMBDA c : c.bird_type = bird_type)

NotOfType(h, bird_type) == SelectSeq(h, LAMBDA c : c.bird_type # bird_type)

RECURSIVE SumTo(_, _)
SumTo(f, n) == IF n = 0 THEN 0 ELSE f[n] + SumTo(f, n - 1)

HandSizes == SumTo([p \in Players |-> Len(hand[p])], Len(names))

Scores == SumTo([p \in Players |-> Len(sets[p])], Len(names))

\* f[1] \o f[2] \o ... \o f[n]
RECURSIVE Flatten(_, _)
Flatten(f, n) == IF n = 0 THEN <<>> ELSE Flatten(f, n - 1) \o f[n]

\* No element occurs twice in the sequence.
NoRepeat(s) == Cardinality({s[i] : i \in 1..Len(s)}) = Len(s)

\* The card is in exactly one place, given the cards of the deck and of all
\* hands (held) and the bird types of all players' extracted sets (extracted),
\* neither of which repeats an element.
InOnePlace(card, held, extracted) ==
    (card \in held) # (card.bird_type \in extracted)

JustConstructed == last.op = "__init__"

-----------------------------------------------------------------------------
(* C1: in every state reached by ask_for_cards, draw_card, check_for_sets  *)
(* and next_turn calls, every card of the deck as created is in exactly    *)
(* one place (the deck, one hand, or one player's extracted set), so       *)
(* cards_remaining + the hand sizes + 4 * the scores is the size of the    *)
(* created deck; right after construction each player's hand size + 4 *    *)
(* score is the number of cards dealt to the player (7 with 2 players,     *)
(* else 5).                                                                *)
C1_EveryCardInOnePlace ==
    /\ LET held == deck \o Flatten(hand, Len(names))
           extracted == Flatten(sets, Len(names))
           held_set == {held[i] : i \in 1..Len(held)}
           extracted_set == {extracted[i] : i \in 1..Len(extracted)}
       IN  /\ NoRepeat(held)
           /\ NoRepeat(extracted)
           /\ \A i \in 1..Len(_create_deck) :
                 InOnePlace(_create_deck[i], held_set, extracted_set)
    /\ cards_remaining(deck) + HandSizes + 4 * Scores = Len(SUITS) * NumBirdTypes
    /\ JustConstructed =>
          \A p \in Players :
              Len(hand[p]) + 4 * Len(sets[p]) = (IF Len(names) = 2 THEN 7 ELSE 5)

\* Cards have moved between hands, a set has been extracted and the deck is not empty.
C1_Witness ==
    /\ calls = 2
    /\ last.op = "check_for_sets" /\ last.new_sets # <<>>
    /\ \E p \in Players : Len(hand[p]) + 4 * Len(sets[p]) > 7
    /\ deck # <<>>

-----------------------------------------------------------------------------
(* C2: ask_for_cards(asker, target, bird_type) when the asker holds no     *)
(* card of bird_type returns 0 and leaves every hand and the deck as they  *)
(* were, also when the target holds cards of that type.                    *)
C2_AskWithoutHoldingRejected ==
    [][last'.op = "ask_for_cards" =>
        \A asker \in Players :
          \A bird_type \in BirdTypeSet \ BirdsHeld(hand[asker]) :
            \A target \in Players :
              ask_for_cards(asker, target, bird_type)
              => (last'.count = 0 /\ hand' = hand /\ deck' = deck)]_vars

\* The state an ask leaves when the asker holds none of a type the target holds:
\* the hands are those before the call.
C2_Witness ==
    /\ last.op = "ask_for_cards" /\ last.count = 0
    /\ \E asker \in Players, target \in Players, bird_type \in BirdTypeSet :
          CountOfType(hand[asker], bird_type) = 0 /\ CountOfType(hand[target], bird_type) > 0

-----------------------------------------------------------------------------
(* C3: ask_for_cards(asker, target, bird_type) with asker # target, the    *)
(* asker holding a card of bird_type and the target holding N >= 1 of      *)
(* them returns N; afterwards the target holds none of that type and the   *)
(* rest of its hand in order, the asker's hand is its old hand followed by *)
(* exactly those N cards, and every other hand is unchanged.               *)
C3_AskTransfersAllMatching ==
    [][last'.op = "ask_for_cards" =>
        \A asker \in Players : \A target \in Players \ {asker} :
          \A bird_type \in BirdsHeld(hand[asker]) \cap BirdsHeld(hand[target]) :
              ask_for_cards(asker, target, bird_type)
              => /\ last'.count = CountOfType(hand[target], bird_type)
                 /\ last'.count >= 1
                 /\ CountOfType(hand'[target], bird_type) = 0
                 /\ hand'[target] = NotOfType(hand[target], bird_type)
                 /\ hand'[asker] = hand[asker] \o OfType(hand[target], bird_type)
                 /\ \A p \in Players \ {asker, target} : hand'[p] = hand[p]
                 /\ deck' = deck /\ sets' = sets]_vars

\* An ask has moved two cards from another player's hand.
C3_Witness ==
    /\ calls = 1
    /\ last.op = "ask_for_cards" /\ last.count = 2
    /\ \E p \in Players :
          Len(hand[p]) + 4 * Len(sets[p]) = (IF Len(names) = 2 THEN 7 ELSE 5) + 2

-----------------------------------------------------------------------------
(* C4: check_game_over() returns true exactly when the deck is empty and   *)
(* some player's hand is empty; returning true it sets game_over, and      *)
(* returning false it leaves game_over as it was.                          *)
C4_GameOverIffDeckAndAHandEmpty ==
    [][(last'.op = "check_game_over" /\ check_game_over) =>
          /\ last'.flag = (Len(deck) = 0 /\ \E p \in Players : hand[p] = <<>>)
          /\ last'.flag => game_over' = TRUE
          /\ ~last'.flag => game_over' = game_over]_vars

\* check_game_over has returned true.
C4_Witness ==
    /\ last.op = "check_game_over" /\ last.flag
    /\ game_over
    /\ deck = <<>> /\ \E p \in Players : hand[p] = <<>>

-----------------------------------------------------------------------------
(* C5: once check_game_over() has returned true (which is when game_over   *)
(* is set), every later check_game_over() returns true and game_over stays *)
(* true, also after cards are added back to the emptied hand.              *)
C5_OnceOverStaysOver ==
    [][game_over =>
          /\ game_over'
          /\ (last'.op = "check_game_over" /\ check_game_over) => last'.flag]_vars

-----------------------------------------------------------------------------
(* C6: once game_over is true, no call of ask_for_cards, draw_card or      *)
(* next_turn changes a hand, a player's completed sets, the deck or        *)
(* current_player_idx.                                                     *)
C6_TerminalOnceOver ==
    [][(game_over /\ last'.op \in {"ask_for_cards", "draw_card", "next_turn"}) =>
          UNCHANGED <<hand, sets, deck, current_player_idx>>]_vars

-----------------------------------------------------------------------------
(* C7: get_winner() returns no player while game_over is false; once       *)
(* game_over is true it returns the player whose score is strictly higher  *)
(* than every other player's, and no player when two or more players       *)
(* share the maximum score (all scores 0 included).                        *)
StrictlyHighest(p) == \A q \in Players \ {p} : Len(sets[p]) > Len(sets[q])

C7_WinnerIsStrictlyHighest ==
    [][(last'.op = "get_winner" /\ get_winner) =>
          /\ last'.raised = ""
          /\ ~game_over => last'.winner = 0
          /\ game_over =>
                /\ \A p \in Players : StrictlyHighest(p) => last'.winner = p
                /\ (~\E p \in Players : StrictlyHighest(p)) => last'.winner = 0]_vars

\* get_winner has returned a player after the game ended.
C7_Witness ==
    /\ last.op = "get_winner" /\ last.winner # 0
    /\ game_over

\* get_winner has returned no player after the game ended in a tie.
C7_WitnessTie ==
    /\ last.op = "get_winner" /\ last.winner = 0
    /\ game_over

-----------------------------------------------------------------------------
(* C8: a game built for n players (2 to 4) deals k = 7 cards each when     *)
(* n = 2 and k = 5 otherwise, one card at a time in player order per       *)
(* round from the back of the shuffled deck; afterwards the deck holds the *)
(* remaining cards (the created deck's size less n * k), every player's    *)
(* hand size + 4 * score is k, current_player_idx is 0 and game_over is    *)
(* false.                                                                  *)
DealtPerPlayer == IF Len(names) = 2 THEN 7 ELSE 5

\* The cards player p is dealt: in round r, the card ((r - 1) * n + p) from the back.
DealtTo(p) ==
    [r \in 1..DealtPerPlayer |->
        shuffled[Len(shuffled) + 1 - ((r - 1) * Len(names) + p)]]

C8_DealAtConstruction ==
    JustConstructed =>
        /\ Len(shuffled) = Len(SUITS) * NumBirdTypes
        /\ deck = SubSeq(shuffled, 1, Len(shuffled) - Len(names) * DealtPerPlayer)
        /\ Len(deck) = Len(SUITS) * NumBirdTypes - Len(names) * DealtPerPlayer
        /\ \A p \in Players :
              /\ \A b \in BirdTypeSet :
                    Occurrences(sets[p], b) = (IF CountOfType(DealtTo(p), b) = 4 THEN 1 ELSE 0)
              /\ hand[p] = SelectSeq(DealtTo(p),
                                     LAMBDA c : CountOfType(DealtTo(p), c.bird_type) < 4)
              /\ Len(hand[p]) + 4 * Len(sets[p]) = DealtPerPlayer
        /\ current_player_idx = 0
        /\ game_over = FALSE

\* A two-player game just built, one player dealt a complete set among the 7 cards.
C8_Witness ==
    /\ JustConstructed
    /\ Len(names) = 2
    /\ \E p \in Players : Len(sets[p]) = 1 /\ Len(hand[p]) = 3
    /\ \E p \in Players : Len(sets[p]) = 0 /\ Len(hand[p]) = 7

-----------------------------------------------------------------------------
(* C9: construction with a player count outside 2..4 or with an empty      *)
(* player name is rejected: an error is signalled and no game with dealt   *)
(* hands is produced.                                                      *)
ValidPlayerNames ==
    /\ Len(names) \in 2..4
    /\ \A i \in 1..Len(names) : names[i] # ""

C9_InvalidConstructionRejected ==
    (JustConstructed /\ ~ValidPlayerNames) =>
        /\ last.raised # ""
        /\ \A p \in Players : hand[p] = <<>> /\ sets[p] = <<>>

-----------------------------------------------------------------------------
(* C10: the turn order is round-robin.  next_turn sets current_player_idx  *)
(* to (current_player_idx + 1) mod the player count and changes nothing    *)
(* else of the game; nothing else changes current_player_idx; in the turn  *)
(* loop every next_turn ends the turn, whether the turn was a hit, a miss  *)
(* or an empty-hand skip, so current_player_idx is always in 0..n-1 and at *)
(* the top of the loop, after t turns, it is t mod n.                      *)
C10_RoundRobin ==
    /\ [](current_player_idx \in 0..(Len(names) - 1))
    /\ [](pc = "while" => current_player_idx = turns % Len(names))
    /\ [][(last'.op = "next_turn") =>
             /\ current_player_idx' = (current_player_idx + 1) % Len(names)
             /\ UNCHANGED <<deck, hand, sets, game_over>>
             /\ pc \in {"turn", "next_turn"} /\ pc' = "while"]_vars
    /\ [][(current_player_idx' # current_player_idx) => last'.op = "next_turn"]_vars

\* Three turns of a two-player game are done and the index has wrapped around to 1.
C10_Witness ==
    /\ pc = "while" /\ turns = 3 /\ last.op = "next_turn"
    /\ Len(names) = 2 /\ current_player_idx = 1

\* An empty-hand skip has advanced the turn.
C10_WitnessSkip ==
    /\ pc = "while" /\ last.op = "next_turn" /\ target_player = 0 /\ turns >= 1
    /\ hand[((current_player_idx + Len(names) - 1) % Len(names)) + 1] = <<>>

-----------------------------------------------------------------------------
(* C11: under the turn loop every play eventually reaches a state in which *)
(* check_game_over() returns true (the loop is left), whatever targets and *)
(* bird types the players choose.                                          *)
C11_PlayReachesGameOver ==
    <>(last.op = "check_game_over" /\ last.flag)

-----------------------------------------------------------------------------
(* C12: one call of check_for_sets() completes every bird type of which    *)
(* the hand holds exactly 4 cards and that is not yet in the player's      *)
(* sets: it returns exactly those k types, each once, the sets grow by     *)
(* them (the score by k), the hand loses its 4k cards of those types and   *)
(* keeps every other card in order; two types complete in the same call.   *)
Completing(h, s) ==
    {b \in BirdsHeld(h) : CountOfType(h, b) = 4 /\ \A i \in 1..Len(s) : s[i] # b}

C12_CheckForSetsCompletesAll ==
    [][last'.op = "check_for_sets" =>
        \A p \in Players :
            check_for_sets(p)
            => LET Q == Completing(hand[p], sets[p])
               IN  /\ {last'.new_sets[i] : i \in 1..Len(last'.new_sets)} = Q
                   /\ Len(last'.new_sets) = Cardinality(Q)
                   /\ sets'[p] = sets[p] \o last'.new_sets
                   /\ score(sets'[p]) = score(sets[p]) + Cardinality(Q)
                   /\ Len(hand'[p]) = Len(hand[p]) - 4 * Cardinality(Q)
                   /\ hand'[p] = SelectSeq(hand[p], LAMBDA c : c.bird_type \notin Q)
                   /\ \A q \in Players \ {p} : hand'[q] = hand[q] /\ sets'[q] = sets[q]]_vars

\* One call on a lone player's hand has completed two bird types.
C12_Witness ==
    /\ pc = "player"
    /\ last.op = "check_for_sets" /\ Len(last.new_sets) = 2
    /\ calls = 1

-----------------------------------------------------------------------------
(* C13: check_for_sets() is idempotent: a second call made right after a   *)
(* first, the hand not touched in between, returns an empty list and       *)
(* changes neither the hand nor the completed sets.                        *)
C13_CheckForSetsIdempotent ==
    [][(last.op = "check_for_sets" /\ last'.op = "check_for_sets") =>
          /\ last'.new_sets = <<>>
          /\ hand' = hand
          /\ sets' = sets]_vars

\* The first call completed the bird type listed second (the sets a lone
\* player starts with are in the order of BIRD_TYPES), the second nothing.
C13_Witness ==
    /\ pc = "player"
    /\ calls = 2
    /\ last.op = "check_for_sets" /\ last.new_sets = <<>>
    /\ sets[1] = <<BIRD_TYPES[2], BIRD_TYPES[1]>>

-----------------------------------------------------------------------------
(* C14: over any sequence of game operations a bird type is added to a     *)
(* player's completed sets at most once: the sets list holds no bird type  *)
(* twice and only grows at its end, so the score never decreases; and a    *)
(* player never holds 4 cards of a bird type that is in the player's sets. *)
IsPrefix(s, t) == Len(s) <= Len(t) /\ SubSeq(t, 1, Len(s)) = s

C14_SetsCompletedOnce ==
    /\ [](\A p \in Players :
             /\ NoRepeat(sets[p])
             /\ \A i \in 1..Len(sets[p]) : CountOfType(hand[p], sets[p][i]) < 4)
    /\ [][\A p \in Players :
             /\ IsPrefix(sets[p], sets'[p])
             /\ score(sets'[p]) >= score(sets[p])]_vars

\* A player who completed a set at the deal has completed a second one.
C14_Witness ==
    /\ pc = "api"
    /\ last.op = "check_for_sets" /\ last.new_sets # <<>>
    /\ \E p \in Players : Len(sets[p]) = 2 /\ sets[p][2] = last.new_sets[1]

-----------------------------------------------------------------------------
(* C15: drawing from an empty deck is a normal outcome: Deck.draw() and    *)
(* draw_card(player) on an empty deck return no card, raise nothing, leave *)
(* the deck empty and every hand unchanged, and a draw that follows a draw *)
(* that returned no card returns no card again.                            *)
C15_DrawFromEmptyDeck ==
    /\ [](deck = <<>> => draw(deck) = [card |-> NoCard, cards |-> <<>>])
    /\ [][(last'.op = "draw_card" /\ deck = <<>>) =>
             /\ last'.card = NoCard
             /\ last'.raised = ""
             /\ deck' = <<>>
             /\ hand' = hand
             /\ UNCHANGED <<sets, current_player_idx, game_over>>]_vars
    /\ [][(last.op = "draw_card" /\ last.card = NoCard /\ last'.op = "draw_card") =>
             last'.card = NoCard]_vars

\* Two calls on a game dealt with an empty deck, the last a draw_card that
\* returned no card; the hands are those of the deal.
C15_Witness ==
    /\ pc = "api"
    /\ calls = 2
    /\ last.op = "draw_card" /\ last.card = NoCard
    /\ deck = <<>>
    /\ hand = BirdGame(names, shuffled).hand

-----------------------------------------------------------------------------
(* C16: draw_card(player) on a non-empty deck removes the last card of the *)
(* deck, appends that card to the player's hand and returns it; every      *)
(* other hand, all completed sets and current_player_idx are unchanged.    *)
(* Over any sequence of game operations the deck never grows.              *)
C16_DrawTakesLastCard ==
    /\ [][(last'.op = "draw_card" /\ deck # <<>>) =>
             \A player \in Players :
                 draw_card(player)
                 => /\ last'.card = deck[Len(deck)]
                    /\ deck' = SubSeq(deck, 1, Len(deck) - 1)
                    /\ Len(deck') = Len(deck) - 1
                    /\ hand'[player] = hand[player] \o <<deck[Len(deck)]>>
                    /\ Len(hand'[player]) = Len(hand[player]) + 1
                    /\ \A q \in Players \ {player} : hand'[q] = hand[q]
                    /\ sets' = sets
                    /\ current_player_idx' = current_player_idx]_vars
    /\ [][Len(deck') <= Len(deck)]_vars

\* Two cards have been drawn from the deck, by one player or two.
C16_Witness ==
    /\ pc = "api"
    /\ calls = 2
    /\ last.op = "draw_card" /\ last.card # NoCard
    /\ Len(deck) = Len(shuffled) - Len(names) * cards_per_player(Len(names)) - 2

-----------------------------------------------------------------------------
(* C17: ask_for_cards never draws: it leaves the deck as it was.  In the   *)
(* turn loop draw_card is called exactly after an ask that returned 0, for *)
(* the current player, once in the turn and taking at most one card; an    *)
(* ask that returned more than 0 is not followed by a draw; no hand but    *)
(* the current player's changes by a draw and the deck changes by nothing  *)
(* else.                                                                   *)
C17_DrawOnlyOnMiss ==
    /\ [][last'.op = "ask_for_cards" => deck' = deck]_vars
    /\ [][last'.op = "draw_card" =>
             /\ last.op = "ask_for_cards" /\ last.count = 0
             /\ draw_card(get_current_player)
             /\ Len(deck) - Len(deck') \in {0, 1}
             /\ \A q \in Players \ {get_current_player} : hand'[q] = hand[q]]_vars
    /\ [][(last.op = "ask_for_cards" /\ last.count = 0) => last'.op = "draw_card"]_vars
    /\ [][(last.op = "ask_for_cards" /\ last.count > 0) => last'.op # "draw_card"]_vars
    /\ [][deck' # deck => last'.op = "draw_card"]_vars

\* The current player has drawn a card after asking a player who held none.
C17_Witness ==
    /\ pc = "check_sets"
    /\ last.op = "draw_card" /\ last.card # NoCard
    /\ hand[get_current_player][Len(hand[get_current_player])] = last.card
    /\ Len(deck) < Len(BirdGame(names, shuffled).deck)

\* An ask has returned more than 0 and the turn goes on to the set checks.
C17_WitnessHit ==
    /\ pc = "check_sets"
    /\ last.op = "ask_for_cards" /\ last.count > 0

-----------------------------------------------------------------------------
(* C18: at each turn boundary of the loop (the set checks done, the next   *)
(* ask not yet made) no player holds 4 cards of a bird type, and every     *)
(* ask_for_cards of the loop returns a count in 0..3.                      *)
C18_NoFourOfAKind ==
    /\ [](pc \in {"while", "turn"} =>
             \A p \in Players : \A b \in BirdsHeld(hand[p]) : CountOfType(hand[p], b) < 4)
    /\ [][last'.op = "ask_for_cards" => last'.count \in 0..3]_vars

\* An ask of the loop has returned 3.
C18_Witness ==
    /\ pc = "check_sets"
    /\ last.op = "ask_for_cards" /\ last.count = 3

-----------------------------------------------------------------------------
(* C19: in the turn loop the turn of a player whose hand is empty is a     *)
(* skip: the next step is next_turn, with no ask and no draw, also when    *)
(* the deck is not empty; it leaves every hand, the deck and all sets      *)
(* unchanged and advances current_player_idx by one.                       *)
C19_EmptyHandSkips ==
    [][(pc = "turn" /\ hand[get_current_player] = <<>>) =>
          /\ last'.op = "next_turn"
          /\ pc' = "while"
          /\ UNCHANGED <<hand, deck, sets, game_over>>
          /\ current_player_idx' = (current_player_idx + 1) % Len(names)]_vars

\* The second player of a three-player game, dealt a complete set and one
\* more card, lost that card in the first turn and passed in the second,
\* the deck not being empty.
C19_Witness ==
    /\ pc = "while" /\ turns = 2 /\ last.op = "next_turn"
    /\ Len(names) = 3 /\ current_player_idx = 2
    /\ hand[2] = <<>> /\ Len(sets[2]) = 1
    /\ deck # <<>>

-----------------------------------------------------------------------------
(* C20: in the turn loop a hand that is empty stays empty: its player      *)
(* neither asks nor draws and no other player's action adds a card to it.  *)
(* So once the deck is empty and some hand is empty, this stays so in      *)
(* every later state of the play.                                          *)
C20_EmptyHandStaysEmpty ==
    /\ [][\A p \in Players : hand[p] = <<>> => hand'[p] = <<>>]_vars
    /\ [][(last'.op \in {"ask_for_cards", "draw_card"}) =>
             hand[get_current_player] # <<>>]_vars
    /\ [][check_game_over_result => check_game_over_result']_vars

\* A player with an empty hand has been asked for cards, and has none to give.
C20_Witness ==
    /\ pc = "draw"
    /\ last.op = "ask_for_cards" /\ last.count = 0
    /\ target_player # 0
    /\ hand[target_player] = <<>>

-----------------------------------------------------------------------------
(* C21: in the turn loop the check_for_sets call made on the target player *)
(* after an ask returns an empty list and changes nothing; so the loop     *)
(* that checks only the asker (simulate_game) and the loop that checks     *)
(* asker and target (play_game), run from the same deal with the same      *)
(* choices, have the same hands, sets and deck.                            *)
C21_TargetCheckFindsNothing ==
    /\ [][(pc = "check_target" /\ last'.op = "check_for_sets") =>
             /\ last'.new_sets = <<>>
             /\ UNCHANGED <<hand, sets, deck>>]_vars
    /\ [](demo = [deck |-> deck, hand |-> hand, sets |-> sets])

\* The target player has been checked in a turn in which the asker was given
\* cards, after a set was completed during play.
C21_Witness ==
    /\ pc = "next_turn"
    /\ last.op = "check_for_sets"
    /\ target_player # 0
    /\ Len(hand[target_player]) < Len(BirdGame(names, shuffled).hand[target_player])
    /\ \E p \in Players : Len(sets[p]) > Len(BirdGame(names, shuffled).sets[p])
    /\ demo # NoDemo

-----------------------------------------------------------------------------
(* C22: in every reachable state each bird type is in the completed sets   *)
(* of at most one player, so the sum of the players' scores is at most the *)
(* number of bird types (10 in the source) and equals the number of bird   *)
(* types none of whose cards is in the deck or in a hand.                  *)
CompletedBy(b) == {p \in Players : \E i \in 1..Len(sets[p]) : sets[p][i] = b}

OutOfPlay == {b \in BirdTypeSet :
                 /\ CountOfType(deck, b) = 0
                 /\ \A p \in Players : CountOfType(hand[p], b) = 0}

C22_EachTypeCompletedByOnePlayer ==
    /\ \A b \in BirdTypeSet : Cardinality(CompletedBy(b)) <= 1
    /\ Scores <= Len(BIRD_TYPES)
    /\ Scores = Cardinality(OutOfPlay)

\* Three bird types are completed, by more than one player, the last by a
\* check_for_sets call after the deal.
C22_Witness ==
    /\ pc = "api"
    /\ last.op = "check_for_sets" /\ last.new_sets # <<>>
    /\ Scores = 3
    /\ Cardinality({p \in Players : sets[p] # <<>>}) >= 2

-----------------------------------------------------------------------------
(* C23: in a 2-player game under the turn loop, once the deck is empty     *)
(* every turn of a player with a non-empty hand is a hit that completes a  *)
(* set: the ask returns more than 0, the asker's check_for_sets completes  *)
(* exactly one set, and over the turn the number of cards in the two hands *)
(* drops by exactly 4 (the ask moves cards, the asker's check takes 4 out, *)
(* the rest of the turn changes no hand).                                  *)
C23_EmptyDeckTurnCompletesSet ==
    /\ [][(Len(names) = 2 /\ deck = <<>> /\ last'.op = "ask_for_cards") =>
             /\ last'.count > 0
             /\ pc' = "check_sets"
             /\ HandSizes' = HandSizes]_vars
    /\ [][(Len(names) = 2 /\ deck = <<>> /\ pc = "check_sets"
                          /\ last.op = "ask_for_cards") =>
             /\ Len(last'.new_sets) = 1
             /\ score(sets'[get_current_player]) = score(sets[get_current_player]) + 1
             /\ HandSizes' = HandSizes - 4]_vars
    /\ [][(Len(names) = 2 /\ deck = <<>> /\ pc \in {"check_target", "next_turn"}) =>
             /\ HandSizes' = HandSizes
             /\ sets' = sets]_vars

\* With the deck empty a player of a two-player game has asked and been given cards.
C23_Witness ==
    /\ Len(names) = 2
    /\ deck = <<>>
    /\ pc = "check_sets"
    /\ last.op = "ask_for_cards" /\ last.count > 0

=============================================================================
